---- MODULE Spec2Model ----
(***************************************************************************)
(* Model of easybuild/tools/job/gc3pie.py: the GC3Pie job backend.         *)
(*                                                                         *)
(* The backend object holds a task collection (`_jobs`), created by        *)
(* init(), filled by queue(), and driven to termination by complete(),     *)
(* which polls an engine and prints status reports.  make_job() builds an  *)
(* Application handle from a job request.                                  *)
(*                                                                         *)
(* Optional Python arguments are modelled as sets with at most one         *)
(* element: {} is None, {v} is the value v.  A handle is the function      *)
(* from the keyword names passed to Application(...) to their values, so   *)
(* that a keyword that was not passed is absent from its DOMAIN.           *)
(***************************************************************************)
EXTENDS Integers, Sequences, FiniteSets, TLC

(***************************************************************************)
(* Bounds of the model.                                                    *)
(***************************************************************************)
MaxJobs == 2        \* handles that make_job creates
MaxQueue == 2       \* calls of queue() in one session
MaxHours == 2       \* largest walltime request, in hours
MaxCores == 1       \* largest core request
MaxOverride == 2    \* largest count a caller passes as an override

(***************************************************************************)
(* Program constants.                                                      *)
(***************************************************************************)
POLL_INTERVAL == 30
\* gc3libs.quantity.hours, as a duration in seconds
hr == 3600

None == {}
Some(v) == {v}
\* the value of an optional argument that is not None
Val(opt) == CHOOSE v \in opt : TRUE

Names == {"gcc", "zlib"}
Scripts == {"eb gcc.eb"}
\* env_vars: None, the empty mapping, a mapping with one variable
EnvChoices == {None, Some(<< >>), Some([EASYBUILD_PREFIX |-> "/sw"])}
HoursChoices == {None} \cup {Some(h) : h \in 1..MaxHours}
CoresChoices == {None} \cup {Some(c) : c \in 1..MaxCores}

\* Run.State of a task, with the two outcomes of a terminated task told apart
TaskStates == {"NEW", "SUBMITTED", "RUNNING", "ok", "failed"}
Rank(s) == CASE s = "NEW" -> 0
             [] s = "SUBMITTED" -> 1
             [] s = "RUNNING" -> 2
             [] OTHER -> 3
Terminated(s) == s \in {"ok", "failed"}

VARIABLES
    pc,          \* where the caller of the backend is
    jobs,        \* self._jobs: the calls of add(job, dependencies), in order
    made,        \* number of handles make_job has created (their ids: 1..made)
    last_call,   \* the last method called, its arguments and what it returned
    execution,   \* execution state of every handle
    coll_state,  \* self._jobs.execution.state
    trace,       \* what complete() has done since it last entered the loop
                 \* body (since it was called, if it has not entered it yet)
    printed      \* the last call of _print_status_report and what it printed

vars == <<pc, jobs, made, last_call, execution, coll_state, trace, printed>>

----------------------------------------------------------------------------
(***************************************************************************)
(* Pure parts.                                                             *)
(***************************************************************************)

\* Python truth value of an optional argument: None, 0 and {} are false
TruthyInt(opt) == opt # None /\ Val(opt) # 0
TruthyMap(opt) == opt # None /\ DOMAIN Val(opt) # {}

\* os.path.join(os.getcwd(), 'easybuild-jobs')
OutputDir == <<"cwd", "easybuild-jobs">>

\* extra_args with the walltime passed as a bare number of hours
ExtraArgsNoUnit(name, env_vars, hours, cores) ==
    LET base == [jobname |-> name, name |-> name]
        e1 == IF TruthyMap(env_vars)
              THEN base @@ ("environment" :> Val(env_vars)) ELSE base
        e2 == IF TruthyInt(hours)
              THEN e1 @@ ("requested_walltime" :> Val(hours)) ELSE e1
        e3 == IF TruthyInt(cores)
              THEN e2 @@ ("requested_cores" :> Val(cores)) ELSE e2
    IN  e3

\* extra_args with the cores always passed, 0 when the caller gave none
ExtraArgsDefaultCores(name, env_vars, hours, cores) ==
    LET base == [jobname |-> name, name |-> name]
        e1 == IF TruthyMap(env_vars)
              THEN base @@ ("environment" :> Val(env_vars)) ELSE base
        e2 == IF TruthyInt(hours)
              THEN e1 @@ ("requested_walltime" :> Val(hours) * hr) ELSE e1
        e3 == e2 @@ ("requested_cores" :> IF cores = None THEN 0 ELSE Val(cores))
    IN  e3

\* the dictionary extra_args that make_job builds
ExtraArgs(name, env_vars, hours, cores) ==
    LET base == [jobname |-> name, name |-> name]
        e1 == IF TruthyMap(env_vars)
              THEN base @@ ("environment" :> Val(env_vars)) ELSE base
        e2 == IF TruthyInt(hours)
              THEN e1 @@ ("requested_walltime" :> Val(hours) * hr) ELSE e1
        e3 == IF TruthyInt(cores)
              THEN e2 @@ ("requested_cores" :> Val(cores)) ELSE e2
    IN  e3

\* Application(['/bin/sh', '-c', script], ..., **extra_args)
Application(script, name, extra_args) ==
    [arguments |-> <<"/bin/sh", "-c", script>>,
     inputs |-> << >>,
     outputs |-> << >>,
     output_dir |-> Append(OutputDir, name),
     stdout |-> "stdout.log",
     join |-> TRUE] @@ extra_args

\* the tasks of the collection
Tasks(js) == {js[i].task : i \in 1..Len(js)}

\* Engine.stats(only=Application): number of tasks per state, and in total
Stats(js, ex) ==
    [s \in TaskStates \cup {"total"} |->
        IF s = "total" THEN Cardinality(Tasks(js))
        ELSE Cardinality({t \in Tasks(js) : ex[t] = s})]

\* str.lower()
Lower(s) == CASE s = "SUBMITTED" -> "submitted"
              [] s = "RUNNING" -> "running"
              [] s = "NEW" -> "new"
              [] OTHER -> s

\* the list comprehension of _print_status_report: one (count, name) per
\* state of `states` whose live count is not zero
JobOverview(states, override, stats) ==
    LET shown == SelectSeq(states, LAMBDA s : stats[s] # 0)
    IN  [i \in 1..Len(shown) |->
            <<IF shown[i] \in DOMAIN override THEN override[shown[i]]
              ELSE stats[shown[i]],
              Lower(shown[i])>>]

\* the state of the collection as the engine sets it
CollState(js, ex) ==
    IF \A t \in Tasks(js) : Terminated(ex[t]) THEN "TERMINATED"
    ELSE IF \E t \in Tasks(js) : Rank(ex[t]) >= 2 THEN "RUNNING"
    ELSE IF \E t \in Tasks(js) : Rank(ex[t]) = 1 THEN "SUBMITTED"
    ELSE "NEW"

PeriodicStates == <<"total", "SUBMITTED", "RUNNING", "ok", "failed">>
FinalStates == <<"total", "ok", "failed">>

\* an entry of trace: what was done, the states reported (for a report),
\* the state of the collection at that point, the seconds slept (for a sleep)
Event(ev, states, state, secs) ==
    [ev |-> ev, states |-> states, state |-> state, secs |-> secs]

----------------------------------------------------------------------------
Init ==
    /\ pc = "new"
    /\ jobs = << >>
    /\ made = 0
    /\ last_call = [op |-> "none"]
    /\ execution = << >>
    /\ coll_state = "NEW"
    /\ trace = << >>
    /\ printed = {}

\* init(): start a new, empty collection
init ==
    /\ pc \in {"new", "ready"}
    /\ pc' = "ready"
    /\ jobs' = << >>
    /\ coll_state' = "NEW"
    /\ last_call' = [op |-> "init"]
    /\ UNCHANGED <<made, execution, trace, printed>>

\* make_job(script, name, env_vars, hours, cores)
make_job(script, name, env_vars, hours, cores) ==
    /\ pc = "ready"
    /\ made < MaxJobs
    /\ made' = made + 1
    /\ execution' = Append(execution, "NEW")
    /\ last_call' =
         [op |-> "make_job", id |-> made + 1, script |-> script, name |-> name,
          env_vars |-> env_vars, hours |-> hours, cores |-> cores,
          ret |-> Application(script, name,
                              ExtraArgs(name, env_vars, hours, cores))]
    /\ UNCHANGED <<pc, jobs, coll_state, trace, printed>>

\* add that puts the new task in front of the collection
AddFirst(js, job, dependencies) ==
    <<[task |-> job, after |-> dependencies]>> \o js

\* add that drops the dependencies
AddAlone(js, job, dependencies) ==
    Append(js, [task |-> job, after |-> {}])

\* self._jobs.add(job, dependencies)
Add(js, job, dependencies) ==
    Append(js, [task |-> job, after |-> dependencies])

\* queue(job, dependencies)
queue(job, dependencies) ==
    /\ pc = "ready"
    /\ Len(jobs) < MaxQueue
    /\ jobs' = Add(jobs, job, dependencies)
    /\ last_call' = [op |-> "queue", job |-> job, dependencies |-> dependencies]
    /\ UNCHANGED <<pc, made, execution, coll_state, trace, printed>>

\* complete(), lines 149-154: create the engine and give it the collection
complete_begin ==
    /\ pc \in {"ready", "done"}
    /\ pc' = "while"
    /\ trace' = <<Event("begin", << >>, coll_state, 0)>>
    /\ last_call' = [op |-> "complete"]
    /\ UNCHANGED <<jobs, made, execution, coll_state, printed>>

\* a loop test that also gives up as soon as one task has failed
WhileTestStopsOnFailure(state) ==
    IF state # "TERMINATED" /\ ~\E t \in Tasks(jobs) : execution[t] = "failed"
    THEN "progress" ELSE "final"

\* where the test of the while loop leads, for a state of the collection
WhileTest(state) == IF state # "TERMINATED" THEN "progress" ELSE "final"

\* the test of the while loop
complete_while ==
    /\ pc = "while"
    /\ pc' = WhileTest(coll_state)
    /\ trace' = IF pc' = "progress" THEN << >> ELSE trace
    /\ UNCHANGED <<jobs, made, last_call, execution, coll_state, printed>>

\* a loop body that leaves the loop right after the progress call that
\* terminated the collection
complete_progress_break ==
    /\ pc = "progress"
    /\ \E ex \in [1..made -> TaskStates] :
          /\ \A t \in 1..made :
                IF t \in Tasks(jobs) /\ ~Terminated(execution[t])
                THEN Rank(ex[t]) >= Rank(execution[t])
                ELSE ex[t] = execution[t]
          /\ execution' = ex
          /\ coll_state' = CollState(jobs, ex)
          /\ trace' = Append(trace, Event("progress", << >>, CollState(jobs, ex), 0))
          /\ pc' = IF CollState(jobs, ex) = "TERMINATED" THEN "final" ELSE "report"
    /\ UNCHANGED <<jobs, made, last_call, printed>>

\* self._engine.progress(): the engine moves any of the tasks of the
\* collection forward, by any number of steps, to any outcome
complete_progress ==
    /\ pc = "progress"
    /\ \E ex \in [1..made -> TaskStates] :
          /\ \A t \in 1..made :
                IF t \in Tasks(jobs) /\ ~Terminated(execution[t])
                THEN Rank(ex[t]) >= Rank(execution[t])
                ELSE ex[t] = execution[t]
          /\ execution' = ex
          /\ coll_state' = CollState(jobs, ex)
          /\ trace' = Append(trace, Event("progress", << >>, CollState(jobs, ex), 0))
    /\ pc' = "report"
    /\ UNCHANGED <<jobs, made, last_call, printed>>

\* _print_status_report(states, **override)
_print_status_report(states, override) ==
    LET stats == Stats(jobs, execution)
    IN  printed' = {[states |-> states, override |-> override, stats |-> stats,
                     job_overview |-> JobOverview(states, override, stats)]}

\* a loop body without the sleep
complete_report_no_sleep ==
    /\ pc = "report"
    /\ _print_status_report(PeriodicStates, << >>)
    /\ trace' = Append(trace, Event("report", PeriodicStates, coll_state, 0))
    /\ pc' = "while"
    /\ UNCHANGED <<jobs, made, last_call, execution, coll_state>>

\* the periodic report of the loop
complete_report ==
    /\ pc = "report"
    /\ _print_status_report(PeriodicStates, << >>)
    /\ trace' = Append(trace, Event("report", PeriodicStates, coll_state, 0))
    /\ pc' = "sleep"
    /\ UNCHANGED <<jobs, made, last_call, execution, coll_state>>

\* time.sleep(self.POLL_INTERVAL)
complete_sleep ==
    /\ pc = "sleep"
    /\ trace' = Append(trace, Event("sleep", << >>, coll_state, POLL_INTERVAL))
    /\ pc' = "while"
    /\ UNCHANGED <<jobs, made, last_call, execution, coll_state, printed>>

\* a final report over the states of the periodic one
complete_final_periodic ==
    /\ pc = "final"
    /\ _print_status_report(PeriodicStates, << >>)
    /\ trace' = Append(trace, Event("final", PeriodicStates, coll_state, 0))
    /\ pc' = "done"
    /\ UNCHANGED <<jobs, made, last_call, execution, coll_state>>

\* the final report, and the return of complete()
complete_final ==
    /\ pc = "final"
    /\ _print_status_report(FinalStates, << >>)
    /\ trace' = Append(trace, Event("final", FinalStates, coll_state, 0))
    /\ pc' = "done"
    /\ UNCHANGED <<jobs, made, last_call, execution, coll_state>>

complete ==
    \/ complete_begin
    \/ complete_while
    \/ complete_progress
    \/ complete_report
    \/ complete_sleep
    \/ complete_final

Next ==
    \/ init
    \/ \E script \in Scripts, name \in Names, env_vars \in EnvChoices,
          hours \in HoursChoices, cores \in CoresChoices :
            make_job(script, name, env_vars, hours, cores)
    \/ \E job \in 1..made : \E dependencies \in SUBSET ((1..made) \ {job}) :
            queue(job, dependencies)
    \/ complete

Spec == Init /\ [][Next]_vars

----------------------------------------------------------------------------
(***************************************************************************)
(* _print_status_report on its own: the engine holds any number of tasks   *)
(* in any states, and the caller passes any list of states and any         *)
(* overrides.                                                              *)
(***************************************************************************)
OverrideKeys == {"total", "failed"}
Overrides ==
    UNION {[D -> 0..MaxOverride] : D \in SUBSET OverrideKeys}
StatesChoices == {FinalStates, PeriodicStates, <<"failed", "total">>}

InitReport ==
    /\ pc = "engine"
    /\ made \in 0..MaxJobs
    /\ jobs = [i \in 1..made |-> [task |-> i, after |-> {}]]
    /\ execution \in [1..made -> TaskStates]
    /\ coll_state = CollState(jobs, execution)
    /\ last_call = [op |-> "complete"]
    /\ trace = << >>
    /\ printed = {}

report_call ==
    /\ pc = "engine"
    /\ \E states \in StatesChoices, override \in Overrides :
          _print_status_report(states, override)
    /\ UNCHANGED <<pc, jobs, made, last_call, execution, coll_state, trace>>

SpecReport == InitReport /\ [][report_call]_vars

----------------------------------------------------------------------------
(***************************************************************************)
(* Properties.                                                             *)
(***************************************************************************)
Kinds(t) == [i \in 1..Len(t) |-> t[i].ev]
Range(f) == {f[i] : i \in DOMAIN f}
IsPrefix(a, b) == Len(a) <= Len(b) /\ a = SubSeq(b, 1, Len(a))
InComplete == pc \in {"while", "progress", "report", "sleep", "final", "done"}
Failed == {t \in Tasks(jobs) : execution[t] = "failed"}

\* C1: complete() is past its loop only when the state of the collection is
\* TERMINATED, however many tasks have failed.
C1_ExitOnlyTerminated ==
    pc \in {"final", "done"} => coll_state = "TERMINATED"

\* the loop has been left with every task of a collection of two failed
C1_Witness ==
    /\ pc = "final"
    /\ Cardinality(Tasks(jobs)) = 2
    /\ Failed = Tasks(jobs)
    /\ "progress" \in Range(Kinds(trace))

\* C2: a report with an override for "total" shows the override for "total"
\* whatever the live count, and shows no state whose live count is zero unless
\* that state is overridden to a nonzero value.
C2_OverrideAlwaysReported ==
    \A p \in printed :
        /\ ("total" \in DOMAIN p.override /\ "total" \in Range(p.states))
              => <<p.override["total"], "total">> \in Range(p.job_overview)
        /\ \A s \in Range(p.states) :
              (p.stats[s] = 0 /\ ~(s \in DOMAIN p.override /\ p.override[s] # 0))
                  => ~\E n \in 0..(MaxJobs + MaxOverride) :
                        <<n, Lower(s)>> \in Range(p.job_overview)

\* C3: in the loop, a report over the five periodic states directly follows a
\* progress call, a sleep of the poll interval directly follows the report,
\* and the loop test is reached only from the call of complete() or from the
\* sleep, so that a progress call and a sleep lie between any two reports.
C3_IterationOrder ==
    /\ \A i \in 1..Len(trace) :
          /\ trace[i].ev = "progress" => i = 1
          /\ trace[i].ev = "report" =>
                /\ i > 1 /\ trace[i-1].ev = "progress"
                /\ trace[i].states = PeriodicStates
          /\ trace[i].ev = "sleep" =>
                /\ i > 1 /\ trace[i-1].ev = "report"
                /\ trace[i].secs = POLL_INTERVAL
    /\ pc = "while" => trace # << >> /\ trace[Len(trace)].ev \in {"begin", "sleep"}
    /\ pc = "progress" => trace = << >>
    /\ pc = "report" => Kinds(trace) = <<"progress">>
    /\ pc = "sleep" => Kinds(trace) = <<"progress", "report">>

\* an iteration is over and the loop goes on to another one
C3_Witness ==
    /\ pc = "while"
    /\ Kinds(trace) = <<"progress", "report", "sleep">>
    /\ coll_state # "TERMINATED"

\* C4: when complete() has returned it has made exactly one final report,
\* over total, ok and failed, as the last thing it did; before it returns
\* from the loop it has made none.
C4_OneFinalReport ==
    LET finals == {i \in 1..Len(trace) : trace[i].ev = "final"}
    IN  /\ pc = "done" =>
              /\ finals = {Len(trace)}
              /\ trace[Len(trace)].states = FinalStates
              /\ \A p \in printed : p.states = FinalStates
              /\ printed # {}
        /\ (InComplete /\ pc # "done") => finals = {}

\* complete() has returned without having entered the loop body
C4_Witness ==
    pc = "done" /\ Kinds(trace) = <<"begin", "final">>

\* C5: no handle is in the collection more than once.
C5_NeverQueuedTwice ==
    \A i, j \in 1..Len(jobs) : jobs[i].task = jobs[j].task => i = j

\* every dependency of every task was added before the task
WellOrdered(js) ==
    \A i \in 1..Len(js) : \A d \in js[i].after :
        \E k \in 1..(i-1) : js[k].task = d

\* C6 as stated: in every reachable state every dependency of a queued task
\* was queued before it.
C6_DependenciesQueuedBefore == WellOrdered(jobs)

\* C6, amended: a call of queue whose dependencies are all in the collection
\* already keeps the collection well ordered.
C6_Amended ==
    [][(/\ last_call'.op = "queue"
        /\ WellOrdered(jobs)
        /\ last_call'.dependencies \subseteq Tasks(jobs))
          => WellOrdered(jobs')]_vars

\* a task is in the collection after the task it depends on
C6_Witness ==
    /\ Len(jobs) = 2
    /\ last_call.op = "queue"
    /\ jobs[2].after = {jobs[1].task}
    /\ WellOrdered(jobs)

\* C7: a handle made for a request of H hours asks for a walltime of H hours.
C7_WalltimeInHours ==
    (last_call.op = "make_job" /\ last_call.hours # None) =>
        /\ "requested_walltime" \in DOMAIN last_call.ret
        /\ last_call.ret["requested_walltime"] = Val(last_call.hours) * hr

\* a handle was made for a request of two hours
C7_Witness ==
    last_call.op = "make_job" /\ last_call.hours = Some(2)

\* C8: a handle has an environment, a walltime or a number of cores only when
\* the caller gave one; made from a request with none of them, it has none.
C8_AbsentWhenNotSupplied ==
    last_call.op = "make_job" =>
        /\ "environment" \in DOMAIN last_call.ret => last_call.env_vars # None
        /\ "requested_walltime" \in DOMAIN last_call.ret => last_call.hours # None
        /\ "requested_cores" \in DOMAIN last_call.ret => last_call.cores # None
        /\ {"jobname", "name", "arguments"} \subseteq DOMAIN last_call.ret

\* a handle was made from a request without environment, hours and cores
C8_Witness ==
    /\ last_call.op = "make_job"
    /\ last_call.env_vars = None
    /\ last_call.hours = None
    /\ last_call.cores = None

C10_TerminatingIteration ==
    /\ pc = "progress" => coll_state # "TERMINATED"
    /\ \A i \in 1..Len(trace) :
          (trace[i].ev = "progress" /\ trace[i].state = "TERMINATED") =>
              LET rest == SubSeq(trace, i + 1, Len(trace))
              IN  /\ IsPrefix(Kinds(rest), <<"report", "sleep", "final">>)
                  /\ \A k \in 1..Len(rest) :
                        rest[k].ev = "sleep" => rest[k].secs = POLL_INTERVAL
                  /\ pc = "done" => Len(rest) = 3
                  /\ pc \in {"report", "sleep", "while", "final", "done"}
    /\ (InComplete /\ trace # << >> /\ trace[1].ev = "begin"
          /\ trace[1].state = "TERMINATED")
          => /\ pc \in {"while", "final", "done"}
             /\ "progress" \notin Range(Kinds(trace))

\* complete() has returned after an iteration that terminated the collection
C10_Witness ==
    /\ pc = "done"
    /\ Kinds(trace) = <<"progress", "report", "sleep", "final">>
    /\ trace[1].state = "TERMINATED"
====
